---- MODULE Spec2Model ----
(***************************************************************************)
(* School administration backend (backend/core): the billing ledger        *)
(* declared in models.py (Invoice, InvoiceItem, Payment) and the document  *)
(* access controller of views.py (DocumentViewSet).                        *)
(*                                                                         *)
(* The ledger has no reconciliation code: models.py declares the three     *)
(* tables with plain stored columns and no save() override or signal, and  *)
(* no view or serializer touches them.  Its operations are therefore the   *)
(* row insertions the model classes give (Model.objects.create), with the  *)
(* column defaults of the declarations.                                    *)
(***************************************************************************)
EXTENDS Integers, Sequences, FiniteSets, TLC

VARIABLES
    invoices,   \* Invoice rows, by primary key: total_amount, amount_paid, status
    items,      \* InvoiceItem rows in insertion order: invoice, amount
    payments,   \* Payment rows in insertion order: invoice, amount, payment_method
    pc,         \* position of each concurrent payment request
    documents,  \* Document rows: id, user (the owner)
    next_id,    \* primary key the next Document row gets
    response    \* the last document request and its response

vars == <<invoices, items, payments, pc, documents, next_id, response>>

\* ------------------------------------------------------------------ bounds
MaxInvoices == 2
MaxItems == 1
MaxPayments == 2
MaxAmount == 2
NumCallers == 3
MaxUsers == 2
NumStaff == 1
MaxDocs == 2

\* --------------------------------------------------------- ledger (models.py)
\* Invoice.Status choices
UNPAID == "UNPAID"
PAID == "PAID"
PARTIALLY_PAID == "PARTIALLY_PAID"
CANCELLED == "CANCELLED"
Status == {UNPAID, PAID, PARTIALLY_PAID, CANCELLED}

\* Payment.PaymentMethod choices
PaymentMethod == {"CASH", "BANK_TRANSFER", "MOBILE_MONEY", "CARD"}

\* A new Invoice row: total_amount has no default and is supplied by the
\* caller; amount_paid defaults to 0 and status to UNPAID.
Invoice(total_amount) ==
    [total_amount |-> total_amount, amount_paid |-> 0, status |-> UNPAID]

\* A new InvoiceItem row (fee_type and description are opaque here).
InvoiceItem(invoice, amount) == [invoice |-> invoice, amount |-> amount]

\* A new Payment row (payment_date is set by the store and never read).
Payment(invoice, amount, payment_method) ==
    [invoice |-> invoice, amount |-> amount, payment_method |-> payment_method]

InvoiceIds == 1..Len(invoices)

\* Invoice.objects.create(student, academic_year, due_date, total_amount)
CreateInvoice(total_amount) ==
    /\ Len(invoices) < MaxInvoices
    /\ invoices' = Append(invoices, Invoice(total_amount))
    /\ UNCHANGED <<items, payments, pc, documents, next_id, response>>

\* InvoiceItem.objects.create(invoice, fee_type, description, amount): the row
\* is inserted; nothing recomputes the invoice.
AddItem(invoice, amount) ==
    /\ Len(items) < MaxItems
    /\ invoice \in InvoiceIds
    /\ items' = Append(items, InvoiceItem(invoice, amount))
    /\ UNCHANGED <<invoices, payments, pc, documents, next_id, response>>

\* Payment.objects.create(invoice, amount, payment_method): one INSERT into the
\* payment table.  Invoice.amount_paid and Invoice.status are separate stored
\* columns that no code recomputes, so the invoice row is left as it was.
InsertPayment(invoice, amount, payment_method) ==
    /\ invoice \in InvoiceIds
    /\ payments' = Append(payments, Payment(invoice, amount, payment_method))
    /\ UNCHANGED <<invoices, items>>

RecordPayment(invoice, amount, payment_method) ==
    /\ Len(payments) < MaxPayments
    /\ InsertPayment(invoice, amount, payment_method)
    /\ UNCHANGED <<pc, documents, next_id, response>>

LedgerInit ==
    /\ invoices = <<>>
    /\ items = <<>>
    /\ payments = <<>>

IdleRest ==
    /\ pc = [c \in 1..NumCallers |-> "idle"]
    /\ documents = {}
    /\ next_id = 1
    /\ response = [op |-> "none"]

Init == LedgerInit /\ IdleRest

Next ==
    \/ \E t \in 0..MaxAmount : CreateInvoice(t)
    \/ \E i \in InvoiceIds, a \in 0..MaxAmount : AddItem(i, a)
    \/ \E i \in InvoiceIds, a \in 1..MaxAmount, m \in PaymentMethod :
          RecordPayment(i, a, m)

Spec == Init /\ [][Next]_vars

\* ------------------------------------------------- concurrent RecordPayment
\* NumCallers requests, each recording one payment of the same amount against
\* one fresh invoice whose total_amount is NumCallers times that amount.  A
\* request is a single INSERT, so it is one atomic step; the steps of the
\* callers interleave in any order.
Callers == 1..NumCallers

CallAmount == invoices[1].total_amount \div NumCallers

CallRecordPayment(c, payment_method) ==
    /\ pc[c] = "ready"
    /\ InsertPayment(1, CallAmount, payment_method)
    /\ pc' = [pc EXCEPT ![c] = "done"]
    /\ UNCHANGED <<documents, next_id, response>>

ConcurrentInit ==
    /\ \E a \in 1..MaxAmount : invoices = <<Invoice(NumCallers * a)>>
    /\ items = <<>>
    /\ payments = <<>>
    /\ pc = [c \in Callers |-> "ready"]
    /\ documents = {}
    /\ next_id = 1
    /\ response = [op |-> "none"]

ConcurrentNext == \E c \in Callers, m \in PaymentMethod : CallRecordPayment(c, m)

SpecConcurrent == ConcurrentInit /\ [][ConcurrentNext]_vars

\* ------------------------------------------- file admission (validators.py)
limit == 10 * 1024 * 1024

\* validate_file_size rejecting a file of exactly limit bytes as well.
validate_file_size_exclusive(size) == ~(size >= limit)

\* validate_file_size: rejects when value.size > limit.
validate_file_size(size) == ~(size > limit)

UpperCase == <<"A", "B", "C", "D", "E", "F", "G", "H", "I", "J", "K", "L", "M",
               "N", "O", "P", "Q", "R", "S", "T", "U", "V", "W", "X", "Y", "Z">>
LowerCase == <<"a", "b", "c", "d", "e", "f", "g", "h", "i", "j", "k", "l", "m",
               "n", "o", "p", "q", "r", "s", "t", "u", "v", "w", "x", "y", "z">>

\* str.lower(), character by character.
lower(text) ==
    [k \in 1..Len(text) |->
        IF \E n \in 1..26 : UpperCase[n] = text[k]
        THEN LowerCase[CHOOSE n \in 1..26 : UpperCase[n] = text[k]]
        ELSE text[k]]

\* str.rfind, 1-based, 0 when the character does not occur.
rfind(text, ch) ==
    IF \E k \in 1..Len(text) : text[k] = ch
    THEN CHOOSE k \in 1..Len(text) :
            text[k] = ch /\ \A j \in (k + 1)..Len(text) : text[j] # ch
    ELSE 0

\* os.path.splitext(name)[1]: the text from the last dot on, provided the dot
\* comes after the last separator and some character between the separator
\* and the dot is not a dot (a leading-dot name has no extension).
splitext_ext(name) ==
    LET sepIndex == rfind(name, "/")
        dotIndex == rfind(name, ".")
    IN  IF dotIndex > sepIndex
           /\ \E k \in (sepIndex + 1)..(dotIndex - 1) : name[k] # "."
        THEN SubSeq(name, dotIndex, Len(name))
        ELSE <<>>

valid_extensions ==
    { <<".", "j", "p", "g">>, <<".", "j", "p", "e", "g">>, <<".", "p", "n", "g">>,
      <<".", "w", "e", "b", "p">>, <<".", "p", "d", "f">>, <<".", "d", "o", "c">>,
      <<".", "d", "o", "c", "x">> }

\* validate_file_extension: rejects when the lowered extension is not listed.
validate_file_extension(name) == lower(splitext_ext(name)) \in valid_extensions

\* Serializer validation of an upload: the two validators run on the file
\* before perform_create sees validated_data.
is_valid(file) == validate_file_size(file.size) /\ validate_file_extension(file.name)

\* Uploaded files tried by the model: admitted (lower and upper case
\* extension), oversize, wrong extension, and a dot-file with no extension.
Files ==
    { [name |-> <<"a", ".", "p", "d", "f">>, size |-> limit],
      [name |-> <<"A", ".", "P", "D", "F">>, size |-> limit],
      [name |-> <<"a", ".", "p", "d", "f">>, size |-> limit + 1],
      [name |-> <<"a", ".", "e", "x", "e">>, size |-> limit],
      [name |-> <<".", "p", "d", "f">>, size |-> 1] }

\* ------------------------------------------- documents (views.py)
Users == 1..MaxUsers

\* request.user.is_staff, supplied by the identity provider.
is_staff(user) == user <= NumStaff

RECURSIVE str(_)
\* Decimal text of a non-negative id, as a sequence of digits.
str(n) == IF n < 10 THEN <<n>> ELSE Append(str(n \div 10), n % 10)

RECURSIVE int(_)
\* The number a decimal text denotes (the ORM's conversion of user__id).
int(text) ==
    IF text = <<>> THEN 0
    ELSE 10 * int(SubSeq(text, 1, Len(text) - 1)) + text[Len(text)]

\* The user_id query parameter of a request: absent, empty, or the decimal
\* text of an id (of a user, or of no user).
QueryParams ==
    {[given |-> FALSE, text |-> <<>>], [given |-> TRUE, text |-> <<>>]}
        \cup {[given |-> TRUE, text |-> str(u)] : u \in 1..(MaxUsers + 1)}

\* Python truthiness of query_params.get('user_id'): None and '' are false.
truthy(param) == param.given /\ param.text # <<>>

\* get_queryset with the user_id filter applied for every requester, in place
\* of the ownership restriction.
get_queryset_any_filter(user, param, docs) ==
    IF truthy(param) THEN {d \in docs : d.user = int(param.text)}
    ELSE IF ~is_staff(user) THEN {d \in docs : d.user = user}
    ELSE docs

\* DocumentViewSet.get_queryset
get_queryset(user, param, docs) ==
    LET own == IF ~is_staff(user) THEN {d \in docs : d.user = user} ELSE docs
    IN  IF truthy(param) /\ is_staff(user)
        THEN {d \in own : d.user = int(param.text)}
        ELSE own

\* get_object looking the pk up in the whole table instead of get_queryset.
get_object_unscoped(user, param, pk, docs) == {d \in docs : d.id = pk}

\* GenericAPIView.get_object over get_queryset: the documents with this pk
\* that the request can see (none: Http404).
get_object(user, param, pk, docs) == {d \in get_queryset(user, param, docs) : d.id = pk}

\* The response of DocumentViewSet.download on a store: Http404 from
\* get_object, else the file, else the 404 of the FileNotFoundError branch
\* (file_exists: whether the storage backend still holds the file).
download_response(user, param, pk, file_exists, docs) ==
    IF get_object(user, param, pk, docs) = {}
    THEN [status |-> 404, body |-> "detail: Not found."]
    ELSE IF file_exists
         THEN [status |-> 200, body |-> "file"]
         ELSE [status |-> 404, body |-> "error: File not found."]

\* GET /documents/ : the list action over get_queryset.
ListDocuments(user, param) ==
    /\ response' = [op |-> "list", user |-> user, param |-> param, status |-> 200,
                    data |-> get_queryset(user, param, documents)]
    /\ UNCHANGED <<documents, next_id, invoices, items, payments, pc>>

\* GET /documents/{pk}/download/
download(user, param, pk, file_exists) ==
    /\ response' = [op |-> "download", user |-> user, param |-> param, pk |-> pk]
                       @@ download_response(user, param, pk, file_exists, documents)
    /\ UNCHANGED <<documents, next_id, invoices, items, payments, pc>>

NoUser == 0

\* perform_create: the owner is validated_data's user when the request names
\* one, the requester otherwise; a non-staff requester may not name another.
effective_user(request_user, candidate) ==
    IF candidate = NoUser THEN request_user ELSE candidate

\* perform_create without its permission check.
permission_never_denied(request_user, candidate) == FALSE

permission_denied(request_user, candidate) ==
    effective_user(request_user, candidate) # request_user /\ ~is_staff(request_user)

\* POST /documents/ : serializer validation, then perform_create, then save.
Upload(request_user, candidate, file) ==
    /\ IF ~is_valid(file)
       THEN /\ response' = [op |-> "upload", user |-> request_user,
                            candidate |-> candidate, file |-> file,
                            status |-> 400, body |-> "ValidationError"]
            /\ UNCHANGED <<documents, next_id>>
       ELSE IF permission_denied(request_user, candidate)
       THEN /\ response' = [op |-> "upload", user |-> request_user,
                            candidate |-> candidate, file |-> file,
                            status |-> 403, body |-> "PermissionDenied"]
            /\ UNCHANGED <<documents, next_id>>
       ELSE /\ next_id <= MaxDocs
            /\ documents' = documents \cup
                   {[id |-> next_id, user |-> effective_user(request_user, candidate)]}
            /\ next_id' = next_id + 1
            /\ response' = [op |-> "upload", user |-> request_user,
                            candidate |-> candidate, file |-> file,
                            status |-> 201, body |-> next_id]
    /\ UNCHANGED <<invoices, items, payments, pc>>

\* No user_id query parameter on the request.
NoParam == [given |-> FALSE, text |-> <<>>]

\* DELETE /documents/{pk}/ : ModelViewSet.destroy over get_object (requests
\* without a user_id parameter).
destroy(user, pk) ==
    /\ LET found == get_object(user, NoParam, pk, documents)
       IN  IF found = {}
           THEN /\ response' = [op |-> "destroy", user |-> user, pk |-> pk,
                                status |-> 404, body |-> "detail: Not found."]
                /\ UNCHANGED documents
           ELSE /\ response' = [op |-> "destroy", user |-> user, pk |-> pk,
                                status |-> 204, body |-> ""]
                /\ documents' = documents \ found
    /\ UNCHANGED <<next_id, invoices, items, payments, pc>>

DocIds == 1..(MaxDocs + 1)

DocInit ==
    /\ documents = {}
    /\ next_id = 1
    /\ response = [op |-> "none"]
    /\ LedgerInit
    /\ pc = [c \in 1..NumCallers |-> "idle"]

DocNext ==
    \/ \E u \in Users, p \in QueryParams : ListDocuments(u, p)
    \/ \E u \in Users, p \in QueryParams, k \in DocIds :
          \E e \in (IF get_object(u, p, k, documents) = {} THEN {FALSE} ELSE BOOLEAN) :
              download(u, p, k, e)
    \/ \E u \in Users, c \in Users \cup {NoUser}, f \in Files : Upload(u, c, f)
    \/ \E u \in Users, k \in DocIds : destroy(u, k)

SpecDocuments == DocInit /\ [][DocNext]_vars

\* ------------------------------------------------- file admission on upload
\* File names tried by the admission runs (value.name is a base name, so no
\* separator): every allowed extension, upper and mixed case, other
\* extensions, two extensions, no extension, a trailing dot, and names whose
\* only dots are leading.
AdmissionNames ==
    { <<"a", ".", "j", "p", "g">>, <<"a", ".", "j", "p", "e", "g">>,
      <<"a", ".", "p", "n", "g">>, <<"a", ".", "w", "e", "b", "p">>,
      <<"a", ".", "p", "d", "f">>, <<"a", ".", "d", "o", "c">>,
      <<"a", ".", "d", "o", "c", "x">>,
      <<"R", ".", "P", "D", "F">>, <<"a", ".", "P", "d", "F">>,
      <<"a", ".", "J", "P", "G">>,
      <<"r", ".", "e", "x", "e">>, <<"a", ".", "p", "d", "f", "x">>,
      <<"a", ".", "p", "d">>, <<"a", ".", "p", "d", "f", ".", "e", "x", "e">>,
      <<"a", ".", "e", "x", "e", ".", "p", "d", "f">>,
      <<"p", "d", "f">>, <<"a", ".", "p", "d", "f", ".">>,
      <<".", "p", "d", "f">>, <<".", ".", "p", "d", "f">> }

\* File sizes tried: empty, and the three sizes around the limit.
AdmissionSizes == {0, limit - 1, limit, limit + 1}

AdmissionFiles == [name : AdmissionNames, size : AdmissionSizes]

\* Uploads of a file for the requester's own account.
AdmissionNext == \E u \in Users, f \in AdmissionFiles : Upload(u, NoUser, f)

SpecAdmission == DocInit /\ [][AdmissionNext]_vars

\* ------------------------------------------------------------ ledger claims
RECURSIVE SumAmounts(_, _)
\* The sum of the amounts of the rows of a table that belong to an invoice.
SumAmounts(rows, invoice) ==
    IF rows = <<>> THEN 0
    ELSE (IF Head(rows).invoice = invoice THEN Head(rows).amount ELSE 0)
         + SumAmounts(Tail(rows), invoice)

HasPayment(invoice) == \E k \in 1..Len(payments) : payments[k].invoice = invoice

\* C1: every invoice's amount_paid equals the sum of the amounts of its
\* (active) payments, in every reachable state.  The code never updates
\* amount_paid, so this fails as soon as a payment is recorded.
C1_AmountPaidIsPaymentSum ==
    \A i \in InvoiceIds : invoices[i].amount_paid = SumAmounts(payments, i)

\* C3: once a payment has been recorded on a non-cancelled invoice, its status
\* is PAID when amount_paid >= total_amount and PARTIALLY_PAID when
\* 0 < amount_paid < total_amount.  The code leaves status at its default.
C3_StatusFollowsAmountPaid ==
    \A i \in InvoiceIds :
        (HasPayment(i) /\ invoices[i].status # CANCELLED) =>
            /\ (invoices[i].amount_paid >= invoices[i].total_amount
                    => invoices[i].status = PAID)
            /\ (0 < invoices[i].amount_paid
                    /\ invoices[i].amount_paid < invoices[i].total_amount
                    => invoices[i].status = PARTIALLY_PAID)

\* C4: every invoice's total_amount equals the sum of the amounts of its
\* items, in every reachable state.  The code stores the total given at
\* creation and never recomputes it when an item is added.
C4_TotalIsItemSum ==
    \A i \in InvoiceIds : invoices[i].total_amount = SumAmounts(items, i)

\* C5: when all NumCallers concurrent RecordPayment calls have returned, there
\* are exactly NumCallers payments, amount_paid is NumCallers times the amount
\* and the status is PAID.
C5_ConcurrentPaymentsAllApplied ==
    (\A c \in Callers : pc[c] = "done") =>
        /\ Len(payments) = NumCallers
        /\ invoices[1].amount_paid = NumCallers * CallAmount
        /\ invoices[1].status = PAID

\* --------------------------------------------------------- document claims
\* The user whose id a user_id parameter names, when it names one.
NamesUser(param, v) == param.given /\ param.text = str(v)

\* C8: a listing for a requester without staff privilege holds only documents
\* the requester owns, whatever user_id is requested; a listing for a staff
\* requester holds exactly the documents of the user user_id names, and all
\* documents when no user_id is given.
C8_ListVisibility ==
    response.op = "list" =>
        IF ~is_staff(response.user)
        THEN \A d \in response.data : d.user = response.user
        ELSE /\ \A v \in 1..(MaxUsers + 1) :
                    NamesUser(response.param, v) =>
                        response.data = {d \in documents : d.user = v}
             /\ ~response.param.given => response.data = documents

\* C8 witness: a non-staff requester with documents of their own asked for
\* another user's documents, which exist, and got a non-empty listing.
C8_Witness ==
    /\ response.op = "list"
    /\ ~is_staff(response.user)
    /\ \E v \in Users :
          /\ v # response.user
          /\ NamesUser(response.param, v)
          /\ \E d \in documents : d.user = v
    /\ response.data # {}

\* C9: for a requester without staff privilege the response of download is
\* the same in any two stores that differ only in documents of other owners;
\* in particular a download of another owner's document got the Http404 a
\* missing document gets.
C9_DownloadHidesInvisible ==
    /\ \A u \in Users, p \in QueryParams, k \in DocIds, e \in BOOLEAN :
          ~is_staff(u) =>
              \A hidden \in SUBSET {d \in documents : d.user # u} :
                  download_response(u, p, k, e, documents \ hidden)
                      = download_response(u, p, k, e, documents)
    /\ (/\ response.op = "download"
        /\ ~is_staff(response.user)
        /\ \E d \in documents : d.id = response.pk /\ d.user # response.user)
          => /\ response.status = 404
             /\ response.body = "detail: Not found."

\* C9 witness: a non-staff requester downloaded an existing document of
\* another owner and got 404.
C9_Witness ==
    /\ response.op = "download"
    /\ ~is_staff(response.user)
    /\ \E d \in documents : d.id = response.pk /\ d.user # response.user
    /\ response.status = 404

C11_MaxBytes == 10485760

\* The extensions the rule allows.
C11_Allowed ==
    { <<".", "j", "p", "g">>, <<".", "j", "p", "e", "g">>, <<".", "p", "n", "g">>,
      <<".", "w", "e", "b", "p">>, <<".", "p", "d", "f">>, <<".", "d", "o", "c">>,
      <<".", "d", "o", "c", "x">> }

\* Two texts are the same up to the case of their letters.
C11_SameIgnoringCase(s, t) ==
    /\ Len(s) = Len(t)
    /\ \A k \in 1..Len(s) :
          \/ s[k] = t[k]
          \/ \E n \in 1..26 : {s[k], t[k]} = {UpperCase[n], LowerCase[n]}

\* The trailing extension of a base name: its suffix from the last dot on,
\* when a character other than a dot comes before that dot; none otherwise
\* (a name whose only dots are leading, such as a dot-file, has none).
C11_TrailingExtension(name) ==
    LET starts == {k \in 1..Len(name) :
                      /\ name[k] = "."
                      /\ \A j \in (k + 1)..Len(name) : name[j] # "."
                      /\ \E j \in 1..(k - 1) : name[j] # "."}
    IN  IF starts = {} THEN <<>>
        ELSE SubSeq(name, CHOOSE k \in starts : TRUE, Len(name))

C11_Admissible(file) ==
    /\ file.size <= C11_MaxBytes
    /\ \E e \in C11_Allowed : C11_SameIgnoringCase(C11_TrailingExtension(file.name), e)

\* C11: an upload is accepted exactly when the file has at most 10,485,760
\* bytes and its trailing extension is, up to case, one of .jpg, .jpeg, .png,
\* .webp, .pdf, .doc, .docx; an accepted upload stores one document, and every
\* other upload fails with ValidationError and leaves the stored documents
\* unchanged.
C11_FileAdmission ==
    [][response'.op = "upload" =>
        IF C11_Admissible(response'.file)
        THEN /\ response'.status = 201
             /\ Cardinality(documents') = Cardinality(documents) + 1
        ELSE /\ response'.status = 400
             /\ response'.body = "ValidationError"
             /\ documents' = documents
             /\ next_id' = next_id]_vars

\* C11 witness: a file of exactly 10,485,760 bytes with an upper-case .PDF
\* extension was uploaded and accepted.
C11_Witness ==
    /\ response.op = "upload"
    /\ response.file.size = C11_MaxBytes
    /\ response.file.name = <<"R", ".", "P", "D", "F">>
    /\ response.status = 201
    /\ \E d \in documents : d.id = response.body

====
